---- MODULE Spec2Model ----
(***************************************************************************)
(* Sudoku-Solver (src/main.py): the Grid object's solving core.            *)
(*                                                                         *)
(* State: the 9x9 cubes (value and temp of every Cube), Grid.model (the    *)
(* matrix the solver searches), Grid.selected.  Operations: select,        *)
(* sketch, clear, place, solve, solve_gui, generate_new_puzzle, and the    *)
(* pure functions valid and find_empty.                                    *)
(*                                                                         *)
(* Python indexes rows and columns 0..8; so does the model.  A position    *)
(* (row, col) is the tuple <<row, col>>: pos[0], pos[1] of the source are  *)
(* pos[1], pos[2] here.                                                    *)
(***************************************************************************)
EXTENDS Integers, Sequences, FiniteSets

VARIABLES
    cubes,      \* cubes[i][j].value of Grid.cubes
    temp,       \* cubes[i][j].temp of Grid.cubes
    model,      \* Grid.model
    selected,   \* Grid.selected: a position or None
    op,         \* the operation that ran last
    arg,        \* its argument (None when it takes none)
    ret,        \* what it returned, or the exception it raised
    searched,   \* whether it called solve()
    search      \* the search in flight or last run: pc, mode, stack, events

vars == <<cubes, temp, model, selected, op, arg, ret, searched, search>>

\* GRID_SIZE: rows and columns of the grid, and the digits 1..9.
GRID_SIZE == 9
\* The side of a box (pos // 3).
BOX == 3

\* What an operation returns (Python's True, False, None) or raises.
True == "True"
False == "False"
None == "None"
TypeError == "TypeError"

PyBool(b) == IF b THEN True ELSE False

Idx == 0..(GRID_SIZE - 1)
Digits == 1..GRID_SIZE
Pos == Idx \X Idx

------------------------------------------------------------------------------
(* Bounds of the model.                                                    *)

\* generate_board masks a subset of the first MaxMasked cells of MaskSeq.
MaxMasked == 4
\* The solve harness overwrites the first MaxChanged cells of MaskSeq.
MaxChanged == 3
\* The valid harness overwrites the first MaxScribbled cells of ScribbleSeq.
MaxScribbled == 2

------------------------------------------------------------------------------
(* Grids.                                                                  *)

\* A complete valid grid, as sudokum.generate would start from.
SolutionRows ==
    << <<5,3,4,6,7,8,9,1,2>>,
       <<6,7,2,1,9,5,3,4,8>>,
       <<1,9,8,3,4,2,5,6,7>>,
       <<8,5,9,7,6,1,4,2,3>>,
       <<4,2,6,8,5,3,7,9,1>>,
       <<7,1,3,9,2,4,8,5,6>>,
       <<9,6,1,5,3,7,2,8,4>>,
       <<2,8,7,4,1,9,6,3,5>>,
       <<3,4,5,2,8,6,1,7,9>> >>

Solution == [i \in Idx |-> [j \in Idx |-> SolutionRows[i + 1][j + 1]]]

\* The cells the puzzle source may mask.  The first four are a rectangle
\* (6,3)=5 (6,8)=4 / (7,3)=4 (7,8)=5 whose digits can be swapped.
MaskSeq == << <<6,3>>, <<6,8>>, <<7,3>>, <<7,8>>, <<0,0>> >>

\* The cells the valid harness overwrites: a box-mate, a row-mate and a
\* column-mate of (0,0).
ScribbleSeq == << <<1,1>>, <<0,4>>, <<4,0>> >>

Min(a, b) == IF a < b THEN a ELSE b

Prefix(seq, n) == {seq[k] : k \in 1..Min(n, Len(seq))}

\* bo with the cells of the function f (positions -> values) overwritten.
Overwrite(bo, f) ==
    [i \in Idx |-> [j \in Idx |->
        IF <<i, j>> \in DOMAIN f THEN f[<<i, j>>] ELSE bo[i][j]]]

Zeros == [i \in Idx |-> [j \in Idx |-> 0]]

\* What sudokum.generate(mask_rate) may return: the solution with some
\* cells zeroed.
Puzzles ==
    {Overwrite(Solution, [p \in S |-> 0]) : S \in SUBSET Prefix(MaskSeq, MaxMasked)}

------------------------------------------------------------------------------
(* The pure functions.                                                     *)

\* find_empty: the first cell holding 0 in row-major order, or None.
find_empty(bo) ==
    LET empty == {p \in Pos : bo[p[1]][p[2]] = 0}
    IN  IF empty = {} THEN None
        ELSE CHOOSE p \in empty :
                \A q \in empty :
                    p[1] < q[1] \/ (p[1] = q[1] /\ p[2] <= q[2])

\* valid with the box loop's "(i, j) != pos" left out.
validBoxCountsSelf(bo, num, pos) ==
    LET rowHit == \E i \in Idx : bo[pos[1]][i] = num /\ pos[2] # i
        colHit == \E i \in Idx : bo[i][pos[2]] = num /\ pos[1] # i
        box_x == pos[2] \div BOX
        box_y == pos[1] \div BOX
        boxHit == \E i \in (box_y * BOX)..(box_y * BOX + BOX - 1) :
                    \E j \in (box_x * BOX)..(box_x * BOX + BOX - 1) :
                        bo[i][j] = num
    IN  ~rowHit /\ ~colHit /\ ~boxHit

valid(bo, num, pos) ==
    LET rowHit == \E i \in Idx : bo[pos[1]][i] = num /\ pos[2] # i
        colHit == \E i \in Idx : bo[i][pos[2]] = num /\ pos[1] # i
        box_x == pos[2] \div BOX
        box_y == pos[1] \div BOX
        boxHit == \E i \in (box_y * BOX)..(box_y * BOX + BOX - 1) :
                    \E j \in (box_x * BOX)..(box_x * BOX + BOX - 1) :
                        bo[i][j] = num /\ <<i, j>> # pos
    IN  ~rowHit /\ ~colHit /\ ~boxHit

\* Cube.set on the cube at pos / an assignment model[row][col] = val.
SetCell(bo, pos, val) == [bo EXCEPT ![pos[1]][pos[2]] = val]

\* Grid.update_model: the model is rebuilt from the cubes' values.
update_model(cs) == [i \in Idx |-> [j \in Idx |-> cs[i][j]]]

\* Grid.is_finished: no cube holds 0.
is_finished(cs) == \A i \in Idx : \A j \in Idx : cs[i][j] # 0

------------------------------------------------------------------------------
(* Grid.solve: the silent backtracking search over Grid.model.  The result *)
(* is the return value and the model the call leaves behind.               *)

RECURSIVE solveDigits(_, _, _)

\* The undo forgotten: the tentative digit stays.
UndoCellForgotten(m, pos) == m

\* The undo on a failing branch: model[row][col] = 0.
UndoCell(m, pos) == SetCell(m, pos, 0)

\* The test of the first line of solve: a grid with no empty cell is solved.
SolvedAt(find) == find = None

solve(m) ==
    LET find == find_empty(m)
    IN  IF SolvedAt(find) THEN [ok |-> TRUE, model |-> m, tries |-> <<>>]
        ELSE solveDigits(m, find, 1)

\* solveDigits giving up after the first digit whose branch fails.
solveDigitsGivesUp(m, pos, i) ==
    IF i > GRID_SIZE THEN [ok |-> FALSE, model |-> m, tries |-> <<>>]
    ELSE IF valid(m, i, pos)
         THEN LET r == solve(SetCell(m, pos, i))
                  t == <<(<<pos, i>>)>> \o r.tries
              IN  IF r.ok THEN [r EXCEPT !.tries = t]
                  ELSE [ok |-> FALSE, model |-> UndoCell(r.model, pos),
                        tries |-> t]
         ELSE solveDigits(m, pos, i + 1)

\* for i in range(1, 10), from digit i on, at the empty cell pos.  tries
\* lists the (cell, digit) pairs written, in the order they were written.
solveDigits(m, pos, i) ==
    IF i > GRID_SIZE THEN [ok |-> FALSE, model |-> m, tries |-> <<>>]
    ELSE IF valid(m, i, pos)
         THEN LET r == solve(SetCell(m, pos, i))
                  t == <<(<<pos, i>>)>> \o r.tries
              IN  IF r.ok THEN [r EXCEPT !.tries = t]
                  ELSE LET n == solveDigits(UndoCell(r.model, pos), pos, i + 1)
                       IN  [n EXCEPT !.tries = t \o n.tries]
         ELSE solveDigits(m, pos, i + 1)

------------------------------------------------------------------------------
(* Grid.solve_gui: the same search, run on the cubes and the model at      *)
(* once.  The result is the return value and the cubes and model the call  *)
(* leaves behind, and the events it showed: draw_change(win, True) after   *)
(* a digit is written is a Try, draw_change(win, False) after it is taken  *)
(* back is a Backtrack.  An event carries the cell and the value that is  *)
(* rendered, the cube's value at that moment.  The pacing delay changes no *)
(* state.                                                                  *)

RECURSIVE solveGuiDigits(_, _, _, _)

\* Cube.draw_change(win, g): the cube's value in a green (g) or red frame.
draw_change(cs, pos, g) ==
    <<[position |-> pos,
       digit    |-> cs[pos[1]][pos[2]],
       action   |-> IF g THEN "Try" ELSE "Backtrack"]>>

TryEvent(cs, pos) == draw_change(cs, pos, TRUE)

\* The draw_change(win, False) left out.
BacktrackEventMissing(cs, pos) == <<>>

BacktrackEvent(cs, pos) == draw_change(cs, pos, FALSE)

\* The undo that resets the model but not the cube: update_model then
\* brings the digit back.
GuiUndoModelOnly(cs, pos) == cs

\* The undo of solve_gui: model[row][col] = 0 and cubes[row][col].set(0).
GuiUndo(cs, pos) == SetCell(cs, pos, 0)

solve_gui(cs, m) ==
    LET m1   == update_model(cs)
        find == find_empty(m1)
    IN  IF find = None
        THEN [ok |-> TRUE, cubes |-> cs, model |-> m1, events |-> <<>>]
        ELSE solveGuiDigits(cs, m1, find, 1)

solveGuiDigits(cs, m, pos, i) ==
    IF i > GRID_SIZE
    THEN [ok |-> FALSE, cubes |-> cs, model |-> m, events |-> <<>>]
    ELSE IF valid(m, i, pos)
         THEN LET cs1 == SetCell(cs, pos, i)
                  r   == solve_gui(cs1, update_model(cs1))
                  e   == TryEvent(cs1, pos) \o r.events
              IN  IF r.ok THEN [r EXCEPT !.events = e]
                  ELSE LET cs2 == GuiUndo(r.cubes, pos)
                           n   == solveGuiDigits(cs2, update_model(cs2),
                                                 pos, i + 1)
                       IN  [n EXCEPT !.events =
                                e \o BacktrackEvent(cs2, pos) \o n.events]
         ELSE solveGuiDigits(cs, m, pos, i + 1)

------------------------------------------------------------------------------
(* The Grid object in play.                                                *)

\* The cells a click may select, the digit keys pressed for sketch.
SelCells == Prefix(MaskSeq, 2)
Keys == {4, 5}

\* No search in flight and no event shown.
Idle == [pc |-> "idle", mode |-> None, stack |-> <<>>, events |-> <<>>]

\* Grid.__init__: generate_board, the cubes, update_model; nothing selected.
Init ==
    /\ cubes \in Puzzles
    /\ temp = Zeros
    /\ model = update_model(cubes)
    /\ selected = None
    /\ op = "init"
    /\ arg = None
    /\ ret = None
    /\ searched = FALSE
    /\ search = Idle

\* generate_new_puzzle: a new board and new cubes (temp 0), the model
\* rebuilt, the selection dropped.
generate_new_puzzle ==
    /\ cubes' \in Puzzles
    /\ temp' = Zeros
    /\ model' = update_model(cubes')
    /\ selected' = None
    /\ op' = "generate_new_puzzle"
    /\ arg' = None
    /\ ret' = None
    /\ searched' = FALSE
    /\ search' = Idle

select(row, col) ==
    /\ selected' = <<row, col>>
    /\ op' = "select"
    /\ arg' = <<row, col>>
    /\ ret' = None
    /\ searched' = FALSE
    /\ search' = Idle
    /\ UNCHANGED <<cubes, temp, model>>

\* row, col = self.selected raises TypeError when nothing is selected.
Unpack(name, a) ==
    /\ selected = None
    /\ op' = name
    /\ arg' = a
    /\ ret' = TypeError
    /\ searched' = FALSE
    /\ search' = Idle
    /\ UNCHANGED <<cubes, temp, model, selected>>

sketch(val) ==
    \/ Unpack("sketch", val)
    \/ /\ selected # None
       /\ temp' = SetCell(temp, selected, val)
       /\ op' = "sketch"
       /\ arg' = val
       /\ ret' = None
       /\ searched' = FALSE
       /\ search' = Idle
       /\ UNCHANGED <<cubes, model, selected>>

clear ==
    \/ Unpack("clear", None)
    \/ /\ selected # None
       /\ temp' = IF cubes[selected[1]][selected[2]] = 0
                  THEN SetCell(temp, selected, 0)
                  ELSE temp
       /\ op' = "clear"
       /\ arg' = None
       /\ ret' = None
       /\ searched' = FALSE
       /\ search' = Idle
       /\ UNCHANGED <<cubes, model, selected>>

\* The value place returns and the state it leaves, for a selected cell:
\* [ret, cubes, temp, model, searched].
\* place on a filled cell falling into the revert's return False.
PlaceFilledRejects(cs, tp, m) ==
    [ret |-> False, cubes |-> cs, temp |-> tp, model |-> m, searched |-> FALSE]

PlaceFilled(cs, tp, m) ==
    [ret |-> None, cubes |-> cs, temp |-> tp, model |-> m, searched |-> FALSE]

\* The commit copying the probe's solution into the cubes.
PlaceCommitReveals(cs, tp, r) ==
    [ret |-> True, cubes |-> r.model, temp |-> tp, model |-> r.model,
     searched |-> TRUE]

PlaceCommit(cs, tp, r) ==
    [ret |-> True, cubes |-> cs, temp |-> tp, model |-> r.model,
     searched |-> TRUE]

\* The revert without set_temp(0).
PlaceRevertKeepsTemp(cs, tp, pos, ran) ==
    LET cs0 == SetCell(cs, pos, 0)
    IN  [ret |-> False, cubes |-> cs0, temp |-> tp,
         model |-> update_model(cs0), searched |-> ran]

PlaceRevert(cs, tp, pos, ran) ==
    LET cs0 == SetCell(cs, pos, 0)
    IN  [ret |-> False, cubes |-> cs0, temp |-> SetCell(tp, pos, 0),
         model |-> update_model(cs0), searched |-> ran]

\* place without the probe: local validity alone commits.
PlaceResultLocalOnly(cs, tp, m, pos, val) ==
    IF cs[pos[1]][pos[2]] = 0
    THEN LET cs1 == SetCell(cs, pos, val)
             m1  == update_model(cs1)
         IN  IF valid(m1, val, pos)
             THEN PlaceCommit(cs1, tp, [ok |-> TRUE, model |-> m1])
             ELSE PlaceRevert(cs1, tp, pos, FALSE)
    ELSE PlaceFilled(cs, tp, m)

\* place without the call of valid: the probe alone commits.
PlaceResultProbeOnly(cs, tp, m, pos, val) ==
    IF cs[pos[1]][pos[2]] = 0
    THEN LET cs1 == SetCell(cs, pos, val)
             r   == solve(update_model(cs1))
         IN  IF r.ok THEN PlaceCommit(cs1, tp, r)
             ELSE PlaceRevert(cs1, tp, pos, TRUE)
    ELSE PlaceFilled(cs, tp, m)

PlaceResult(cs, tp, m, pos, val) ==
    IF cs[pos[1]][pos[2]] = 0
    THEN LET cs1 == SetCell(cs, pos, val)
             m1  == update_model(cs1)
         IN  IF valid(m1, val, pos)
             THEN LET r == solve(m1)
                  IN  IF r.ok THEN PlaceCommit(cs1, tp, r)
                      ELSE PlaceRevert(cs1, tp, pos, TRUE)
             ELSE PlaceRevert(cs1, tp, pos, FALSE)
    ELSE PlaceFilled(cs, tp, m)

place(val) ==
    \/ Unpack("place", val)
    \/ /\ selected # None
       /\ LET r == PlaceResult(cubes, temp, model, selected, val)
          IN  /\ cubes' = r.cubes
              /\ temp' = r.temp
              /\ model' = r.model
              /\ ret' = r.ret
              /\ searched' = r.searched
       /\ search' = Idle
       /\ op' = "place"
       /\ arg' = val
       /\ UNCHANGED selected

\* run_game on K_RETURN: i, j = board.selected, then place(temp) when the
\* selected cube's temp is set.  ret is what place returned, None when it
\* was not called.  The message boxes and the strike count are display.
KeyReturn ==
    \/ Unpack("enter", None)
    \/ /\ selected # None
       /\ LET t == temp[selected[1]][selected[2]]
              r == IF t # 0
                   THEN PlaceResult(cubes, temp, model, selected, t)
                   ELSE PlaceFilled(cubes, temp, model)
          IN  /\ cubes' = r.cubes
              /\ temp' = r.temp
              /\ model' = r.model
              /\ ret' = r.ret
              /\ searched' = r.searched
       /\ search' = Idle
       /\ op' = "enter"
       /\ arg' = None
       /\ UNCHANGED selected

SolveGui ==
    LET r == solve_gui(cubes, model)
    IN  /\ cubes' = r.cubes
        /\ model' = r.model
        /\ ret' = PyBool(r.ok)
        /\ op' = "solve_gui"
        /\ arg' = None
        /\ searched' = FALSE
        /\ search' = [Idle EXCEPT !.events = r.events]
        /\ UNCHANGED <<temp, selected>>

Next ==
    \/ generate_new_puzzle
    \/ \E p \in SelCells : select(p[1], p[2])
    \/ \E k \in Keys : sketch(k)
    \/ clear
    \/ \E d \in Digits : place(d)
    \/ KeyReturn
    \/ SolveGui

Spec == Init /\ [][Next]_vars

------------------------------------------------------------------------------
(* Harness for the pure functions: a Grid built over an arbitrary board    *)
(* (the values 0..9 written over some cells of the solution), on which     *)
(* valid and solve are called directly.                                    *)

Values == 0..GRID_SIZE

Scribbled(cells) == {Overwrite(Solution, f) : f \in [cells -> Values]}

InitOver(boards) ==
    /\ cubes \in boards
    /\ temp = Zeros
    /\ model = update_model(cubes)
    /\ selected = None
    /\ op = "init"
    /\ arg = None
    /\ ret = None
    /\ searched = FALSE
    /\ search = Idle

\* self.solve() on the grid's model.
CallSolve ==
    LET r == solve(model)
    IN  /\ model' = r.model
        /\ ret' = PyBool(r.ok)
        /\ op' = "solve"
        /\ arg' = None
        /\ searched' = TRUE
        /\ search' = Idle
        /\ UNCHANGED <<cubes, temp, selected>>

InitSolve == InitOver(Scribbled(Prefix(MaskSeq, MaxChanged)))

SpecSolve == InitSolve /\ [][CallSolve]_vars

\* board.solve_gui() on the same arbitrary boards.
SpecGui == InitSolve /\ [][SolveGui]_vars

\* The positions valid is asked about: (0,0) holds 5, (1,5) holds 5.
ArgCells == {<<0, 0>>, <<1, 5>>}

\* valid(self.model, num, pos).
CallValid(num, pos) ==
    /\ ret' = PyBool(valid(model, num, pos))
    /\ op' = "valid"
    /\ arg' = <<num, pos>>
    /\ searched' = FALSE
    /\ search' = Idle
    /\ UNCHANGED <<cubes, temp, model, selected>>

InitValid == InitOver(Scribbled(Prefix(ScribbleSeq, MaxScribbled)))

NextValid == \E num \in Digits : \E pos \in ArgCells : CallValid(num, pos)

SpecValid == InitValid /\ [][NextValid]_vars

------------------------------------------------------------------------------
(* The search one step at a time.  search.stack holds one frame per         *)
(* activation of solve (or solve_gui): the cell find_empty gave it and the  *)
(* digit its loop has reached (0 before the first iteration).  A step runs  *)
(* the loop of the innermost activation up to its next write or to its end. *)
(* The drawing between the writes changes no cell and is left out here;     *)
(* SolveGui records it.                                                     *)

Modes == {"solve", "solve_gui"}

Frame(pos, i) == [pos |-> pos, digit |-> i]

Top(stack) == stack[Len(stack)]

Pop(stack) == SubSeq(stack, 1, Len(stack) - 1)

\* The loop starting again at the digit it has just taken back.
nextDigitRepeats(m, pos, i) ==
    LET from == IF i = 0 THEN 1 ELSE i
        c    == {d \in from..GRID_SIZE : valid(m, d, pos)}
    IN  IF c = {} THEN 0 ELSE CHOOSE d \in c : \A e \in c : d <= e

\* for i in range(1, 10): if valid(self.model, i, (row, col)).  The next
\* digit after i that the loop writes, 0 when the loop runs out.
nextDigit(m, pos, i) ==
    LET c == {d \in (i + 1)..GRID_SIZE : valid(m, d, pos)}
    IN  IF c = {} THEN 0 ELSE CHOOSE d \in c : \A e \in c : d <= e

\* The call: solve_gui rebuilds the model, both look for the first empty
\* cell and return True when there is none.
StartSearch(mode) ==
    /\ search.pc = "idle"
    /\ LET m1   == IF mode = "solve_gui" THEN update_model(cubes) ELSE model
           find == find_empty(m1)
       IN  /\ model' = m1
           /\ IF find = None
              THEN /\ search' = [Idle EXCEPT !.pc = "done", !.mode = mode]
                   /\ ret' = True
              ELSE /\ search' = [Idle EXCEPT !.pc = "run", !.mode = mode,
                                             !.stack = <<Frame(find, 0)>>]
                   /\ ret' = None
    /\ op' = mode
    /\ arg' = None
    /\ searched' = (mode = "solve")
    /\ UNCHANGED <<cubes, temp, selected>>

\* The innermost loop writes its next valid digit and calls itself: the new
\* activation returns True when no cell is empty, and every caller returns
\* True in turn; otherwise it starts its own loop.
StepTry ==
    /\ search.pc = "run"
    /\ LET f   == Top(search.stack)
           gui == search.mode = "solve_gui"
           d   == nextDigit(model, f.pos, f.digit)
           cs1 == IF gui THEN SetCell(cubes, f.pos, d) ELSE cubes
           m1  == IF gui THEN update_model(cs1) ELSE SetCell(model, f.pos, d)
           st  == [search.stack EXCEPT ![Len(search.stack)] = Frame(f.pos, d)]
           find == find_empty(m1)
       IN  /\ d # 0
           /\ cubes' = cs1
           /\ model' = m1
           /\ IF find = None
              THEN /\ search' = [search EXCEPT !.pc = "done", !.stack = st]
                   /\ ret' = True
              ELSE /\ search' = [search EXCEPT
                                    !.stack = Append(st, Frame(find, 0))]
                   /\ ret' = ret
    /\ UNCHANGED <<temp, selected, op, arg, searched>>

\* The innermost loop has run out: return False.  The caller, if there is
\* one, takes its digit back and goes on with its loop.
StepBacktrack ==
    /\ search.pc = "run"
    /\ LET f   == Top(search.stack)
           gui == search.mode = "solve_gui"
           st  == Pop(search.stack)
       IN  /\ nextDigit(model, f.pos, f.digit) = 0
           /\ IF st = <<>>
              THEN /\ search' = [search EXCEPT !.pc = "done", !.stack = st]
                   /\ ret' = False
                   /\ UNCHANGED <<cubes, model>>
              ELSE LET cs1 == IF gui THEN GuiUndo(cubes, Top(st).pos)
                                     ELSE cubes
                       m1  == IF gui THEN update_model(cs1)
                                     ELSE UndoCell(model, Top(st).pos)
                   IN  /\ search' = [search EXCEPT !.stack = st]
                       /\ cubes' = cs1
                       /\ model' = m1
                       /\ ret' = ret
    /\ UNCHANGED <<temp, selected, op, arg, searched>>

\* The boards the stepwise search starts from: the cells of the harness
\* empty or holding one of the digits 4, 5 (the solution's) or 9.
StepValues == {0, 4, 5, 9}

InitSteps ==
    InitOver({Overwrite(Solution, f) :
                 f \in [Prefix(MaskSeq, MaxChanged) -> StepValues]})

NextSteps ==
    \/ \E mode \in Modes : StartSearch(mode)
    \/ StepTry
    \/ StepBacktrack

\* The program is one thread that runs a started call to its return.
SpecSteps ==
    InitSteps /\ [][NextSteps]_vars /\ WF_vars(StepTry \/ StepBacktrack)


------------------------------------------------------------------------------
(* The Sudoku constraints, stated on sets of cells.                        *)

SameRow(p, q) == p[1] = q[1]
SameCol(p, q) == p[2] = q[2]
SameBox(p, q) == p[1] \div BOX = q[1] \div BOX /\ p[2] \div BOX = q[2] \div BOX

\* The other cells of p's row, column and box.
PeersOf ==
    [p \in Pos |->
        {q \in Pos : q # p /\ (SameRow(p, q) \/ SameCol(p, q) \/ SameBox(p, q))}]

Peers(p) == PeersOf[p]

At(g, p) == g[p[1]][p[2]]

EmptyCells(g) == {p \in Pos : At(g, p) = 0}

\* No nonzero value occurs twice in a row, a column or a box.
NoDup(g) == \A p \in Pos : At(g, p) # 0 => \A q \in Peers(p) : At(g, q) # At(g, p)

\* The digits no peer of p holds.
Free(g, p) == {d \in Digits : \A q \in Peers(p) : At(g, q) # d}

\* The full grids without duplicate that agree with g on its nonzero cells.
Completions(g) ==
    IF ~NoDup(g) THEN {}
    ELSE LET E == EmptyCells(g)
             D == UNION {Free(g, p) : p \in E}
             F == {f \in [E -> D] : \A p \in E : f[p] \in Free(g, p)}
         IN  {h \in {Overwrite(g, f) : f \in F} : NoDup(h)}

------------------------------------------------------------------------------
(* Claims about valid.                                                     *)

\* C1: valid(grid, digit, position) is False exactly when the digit occurs in
\* a cell other than the position in the position's row, column or box; the
\* position's own cell does not count.
C1_ValidIffNoPeerHolds ==
    op = "valid" =>
        (ret = False <=> \E q \in Peers(arg[2]) : At(model, q) = arg[1])

\* C1 witness: valid was asked about a digit the position itself holds while
\* of its peers only a box-mate (neither row- nor column-mate) holds it too,
\* and answered False.
C1_Witness ==
    /\ op = "valid"
    /\ ret = False
    /\ At(model, arg[2]) = arg[1]
    /\ \E q \in Peers(arg[2]) : At(model, q) = arg[1]
    /\ \A q \in Peers(arg[2]) :
          At(model, q) = arg[1] => ~SameRow(q, arg[2]) /\ ~SameCol(q, arg[2])

------------------------------------------------------------------------------
(* Claims about the silent solve.                                          *)

\* C2: on a grid with exactly one completion, solve returns True and leaves
\* the model equal to that completion; solve called again after a solve that
\* returned True returns True and changes no cell.
C2_UniqueCompletionFound ==
    [][ /\ (op' = "solve" /\ Cardinality(Completions(model)) = 1)
            => (ret' = True /\ Completions(model) = {model'})
        /\ (op' = "solve" /\ op = "solve" /\ ret = True)
            => (ret' = True /\ model' = model) ]_vars

\* C2 witness: a grid with three empty cells and one completion was solved
\* into that completion.
C2_Witness ==
    /\ op = "solve"
    /\ ret = True
    /\ Cardinality(EmptyCells(cubes)) = 3
    /\ Completions(cubes) = {model}

\* C3: a solve that returns False leaves every cell of the model as it was.
C3_ExhaustedRestores ==
    [][ (op' = "solve" /\ ret' = False) => model' = model ]_vars

\* C3 witness: solve returned False on a grid whose first empty cell accepts
\* a digit, so a digit was written and taken back.
C3_Witness ==
    /\ op = "solve"
    /\ ret = False
    /\ \E d \in Digits : valid(model, d, find_empty(model))

\* C4, as claimed: on a grid with two equal nonzero digits in one row,
\* column or box, solve returns False.
C4_ConflictingGivensExhausted ==
    (op = "solve" /\ ~NoDup(cubes)) => ret = False

------------------------------------------------------------------------------
(* Claims about place.                                                     *)

\* A place call that reached a selected cell.
Placed == op' = "place" /\ selected # None

\* C5: on a selected empty cell place(d) returns True exactly when no peer
\* of the cell holds d and the board with d in the cell has a completion,
\* and False otherwise; when the cell was the only empty one, a True place
\* makes is_finished true.
C5_CommitIffCompletable ==
    [][ (Placed /\ At(cubes, selected) = 0) =>
          /\ ret' \in {True, False}
          /\ ret' = True <=>
                (/\ arg' \in Free(cubes, selected)
                 /\ Completions(SetCell(cubes, selected, arg')) # {})
          /\ (ret' = True /\ EmptyCells(cubes) = {selected})
                => is_finished(cubes') ]_vars

\* C5 witness: a digit no peer holds was rejected because the probe failed.
C5_Witness ==
    /\ op = "place"
    /\ ret = False
    /\ searched
    /\ At(cubes, selected) = 0
    /\ arg \in Free(cubes, selected)
    /\ Completions(SetCell(cubes, selected, arg)) = {}

\* C6: when place returns False the selected cell reads 0, its temp is 0 and
\* every other cell value is what it was; a place on a selected cell never
\* ends in an exception.
C6_RejectedRollsBack ==
    [][ /\ (Placed /\ ret' = False) =>
              /\ At(cubes', selected) = 0
              /\ At(temp', selected) = 0
              /\ \A p \in Pos \ {selected} : At(cubes', p) = At(cubes, p)
        /\ Placed => ret' # TypeError ]_vars

\* C6 witness: a place was rejected by the probe on a board with another
\* empty cell; the selected cell is empty again and its temp is 0.
C6_Witness ==
    /\ op = "place"
    /\ ret = False
    /\ searched
    /\ At(cubes, selected) = 0
    /\ At(temp, selected) = 0
    /\ EmptyCells(cubes) # {selected}

\* C7, as claimed: when place returns True the placed digit is in the
\* selected cell and the cell's temp is 0.
C7_CommittedClearsTemp ==
    (op = "place" /\ ret = True) =>
        (At(cubes, selected) = arg /\ At(temp, selected) = 0)

\* C8, as claimed: when place returns True every cell value of the board is
\* nonzero and is_finished is true.
C8_CommittedBoardFull ==
    (op = "place" /\ ret = True) => is_finished(cubes)

\* C8, amended: when place returns True the solution the probe found is left
\* in Grid.model only (model is full, without duplicate, and agrees with the
\* cubes); of the cubes only the selected cell changed, to the placed digit,
\* and is_finished is true exactly when it was the last empty cell.
C8_CommittedKeepsOneDigit ==
    [][ (Placed /\ ret' = True) =>
          /\ cubes' = SetCell(cubes, selected, arg')
          /\ is_finished(model')
          /\ NoDup(model')
          /\ \A p \in Pos : At(cubes', p) # 0 => At(model', p) = At(cubes', p)
          /\ is_finished(cubes') <=> EmptyCells(cubes) = {selected} ]_vars

\* C8 witness: place returned True and the board still has an empty cell,
\* while the model is full.
C8_Witness ==
    /\ op = "place"
    /\ ret = True
    /\ At(cubes, selected) = arg
    /\ ~is_finished(cubes)
    /\ is_finished(model)

C10_BoardValid == NoDup(cubes)

\* C10 witness: solve_gui has filled a board that had two solutions.
C10_Witness ==
    /\ op = "solve_gui"
    /\ ret = True
    /\ is_finished(cubes)
    /\ cubes # Solution

------------------------------------------------------------------------------
(* Claims about the selection.                                             *)

\* C11, as claimed: place, sketch, clear and the Enter-key handler raise no
\* error when no cell is selected.
C11_NoSelectionSilent ==
    (op \in {"place", "sketch", "clear", "enter"} /\ selected = None)
        => ret # TypeError

------------------------------------------------------------------------------
(* Claims about the instrumented solve.                                    *)

IsTry(e) == e.action = "Try"

\* The (cell, digit) pairs of the Try events, in order.
Tries(ev) ==
    LET t == SelectSeq(ev, IsTry)
    IN  [k \in 1..Len(t) |-> <<t[k].position, t[k].digit>>]

\* C12: from the same cell values solve_gui tries the same (cell, digit)
\* pairs in the same order as solve, returns the same outcome, and leaves in
\* the cubes the values solve leaves in the model.
C12_GuiMatchesSilent ==
    [][ op' = "solve_gui" =>
          LET r == solve(update_model(cubes))
          IN  /\ ret' = PyBool(r.ok)
              /\ cubes' = r.model
              /\ model' = r.model
              /\ Tries(search'.events) = r.tries ]_vars

\* C12 witness: solve_gui solved a grid after taking a digit back.
C12_Witness ==
    /\ op = "solve_gui"
    /\ ret = True
    /\ \E k \in 1..Len(search.events) : search.events[k].action = "Backtrack"

\* The stepwise search ends as the recursive one does.
StepsAgreeWithSolve ==
    (search.pc = "done" /\ search.mode = "solve") =>
        LET r == solve(update_model(cubes))
        IN  ret = PyBool(r.ok) /\ model = r.model

\* C13: a started search, silent or instrumented, reaches Solved or
\* Exhausted: it returns True or False and nothing else.
C13_SearchTerminates ==
    (search.pc = "run") ~> (search.pc = "done" /\ ret \in {True, False})

\* C13 witness: a search that went at least two cells deep has ended.
C13_Witness ==
    /\ search.pc = "done"
    /\ ret = True
    /\ Len(search.stack) >= 2

------------------------------------------------------------------------------
(* Claims about play.                                                      *)

\* C14, as claimed: sketch changes the scratch value of no cell that holds a
\* nonzero value.
C14_SketchOnlyOnEmpty ==
    [][ op' = "sketch" =>
          \A p \in Pos :
              At(cubes, p) # 0 => temp'[p[1]][p[2]] = temp[p[1]][p[2]] ]_vars

\* C15: whatever is played on a board of the puzzle source, the nonzero
\* values of the board extend to a full grid without duplicate.
C15_StillCompletable == Completions(cubes) # {}

\* C15 witness: place has committed a digit other than the generator's
\* solution has in that cell, and cells are still empty.
C15_Witness ==
    /\ op = "place"
    /\ ret = True
    /\ selected # None
    /\ At(cubes, selected) = arg
    /\ arg # At(Solution, selected)
    /\ EmptyCells(cubes) # {}

------------------------------------------------------------------------------
(* Claims about the order of the search.                                   *)

\* p comes before q in the row-major scan.
Before(p, q) == p[1] < q[1] \/ (p[1] = q[1] /\ p[2] < q[2])

\* g is not after h when the cells are compared in row-major order.
LexLeq(g, h) ==
    \/ g = h
    \/ \E p \in Pos :
          /\ At(g, p) < At(h, p)
          /\ \A q \in Pos : Before(q, p) => At(g, q) = At(h, q)

SolvedIsLexSmallest ==
    /\ model \in Completions(cubes)
    /\ \A h \in Completions(cubes) : LexLeq(model, h)

\* C16, as claimed: whenever solve returns True, the grid it leaves is the
\* smallest, in row-major order, of the full grids without duplicate that
\* extend the grid it started from.
C16_SolvedIsLexSmallest ==
    (op = "solve" /\ ret = True) => SolvedIsLexSmallest

\* What does hold: the same, from grids whose givens do not conflict.
LexSmallestOnValidGivens ==
    (op = "solve" /\ ret = True /\ NoDup(cubes)) => SolvedIsLexSmallest

------------------------------------------------------------------------------
(* Claims about the events of the instrumented solve.                      *)

RECURSIVE Nesting(_, _)

\* The events read as brackets: a Try opens, a Backtrack must close the
\* innermost open Try of its cell (and, withDigit, of its digit).  ok tells
\* whether every Backtrack did, open lists the Tries left open.
Nesting(ev, withDigit) ==
    IF ev = <<>> THEN [ok |-> TRUE, open |-> <<>>]
    ELSE LET n == Len(ev)
             e == ev[n]
             r == Nesting(SubSeq(ev, 1, n - 1), withDigit)
         IN  IF ~r.ok THEN r
             ELSE IF e.action = "Try"
                  THEN [r EXCEPT !.open = Append(@, <<e.position, e.digit>>)]
                  ELSE IF /\ r.open # <<>>
                          /\ Top(r.open)[1] = e.position
                          /\ withDigit => Top(r.open)[2] = e.digit
                       THEN [r EXCEPT !.open = Pop(@)]
                       ELSE [r EXCEPT !.ok = FALSE]

\* The Tries left open are the cells empty before the call, each once, with
\* the digit the cell holds after it.
OpenAreFilledCells(open, before, after) ==
    /\ Len(open) = Cardinality(EmptyCells(before))
    /\ {open[k] : k \in 1..Len(open)} =
           {<<p, At(after, p)>> : p \in EmptyCells(before)}

EventsNested(withDigit) ==
    op' = "solve_gui" =>
        LET n == Nesting(search'.events, withDigit)
        IN  /\ n.ok
            /\ ret' = False => n.open = <<>>
            /\ ret' = True => OpenAreFilledCells(n.open, cubes, cubes')

\* C17, as claimed: every Backtrack closes the innermost open Try and has
\* its cell and its digit; an exhausted search leaves no Try open, a solved
\* one leaves open the Tries of the originally empty cells with their final
\* digits.
C17_EventsNested == [][EventsNested(TRUE)]_vars

\* C17, amended: every Backtrack closes the innermost open Try and has its
\* cell, but shows 0, the value of the cell once the digit is taken back;
\* the rest as claimed.
C17_EventsNestedByCell ==
    [][ /\ EventsNested(FALSE)
        /\ op' = "solve_gui" =>
              \A k \in 1..Len(search'.events) :
                  search'.events[k].action = "Backtrack"
                      => search'.events[k].digit = 0 ]_vars

\* C17 witness: solve_gui gave up after taking a digit back.
C17_Witness ==
    /\ op = "solve_gui"
    /\ ret = False
    /\ \E k \in 1..Len(search.events) : search.events[k].action = "Backtrack"

====
